---- MODULE Spec2Model ----
(***************************************************************************)
(* The Peer request/response correlation engine of protoo                  *)
(* (server/lib/Peer.js): the table of sent requests' handlers, their       *)
(* timers and promises, the close lifecycle and the dispatch of inbound    *)
(* messages.                                                               *)
(***************************************************************************)
EXTENDS Integers, Sequences, FiniteSets, TLC

\* ------------------------------------------------------------------ bounds
\* Number of send() calls explored.
MaxRequests == 2
\* Number of inbound request frames delivered by the transport.
MaxInbound == 1
\* Number of frames handed to transport.send().
MaxSent == 2
\* Number of listeners registered for one event of the Application.
MaxListeners == 2
\* Number of handleWebSocket() calls.
MaxServers == 1

\* ------------------------------------------------------------ input values
Ids == 1..MaxRequests
\* Ids the remote gives to its own requests.
InboundIds == {7}
Methods == {"ping"}
Data == {"pong", "null"}
\* What the observer answers inbound requests with.
AcceptData == {"pong"}
RejectErrors == {<<"busy", 500>>}
\* errorReason and errorCode of the error responses of the remote.
RemoteErrors == {<<"not allowed", 403>>, <<"busy", 500>>}

\* Events of the Application that listeners are registered for and fired.
AppEvents == {"error", "peer:online"}
\* What a listener does when it is called.
ListenerBehaviours == {"returns", "throws"}
\* Errors reported to the Application, and the error a throwing listener
\* raises.
AppErrors == {"server failure"}
ListenerError == "listener failure"
AppPayloads == AppErrors \cup {"peer"}

\* --------------------------------------------------------------- variables
VARIABLES
    closed,              \* this._closed
    requestHandlers,     \* keys of this._requestHandlers (handler of request id)
    timer,               \* handler.timer of each request created by send()
    promise,             \* the promise returned by send() for each request
    settleCalls,         \* number of pResolve/pReject invocations per request
    nextId,              \* next id handed out by Message.requestFactory
    transportSent,       \* frames passed to this._transport.send()
    transportCloseCalls, \* number of this._transport.close() invocations
    emitted,             \* events emitted by the Peer, in order
    lastOp               \* the operation that produced the current state

vars == <<closed, requestHandlers, timer, promise, settleCalls, nextId,
          transportSent, transportCloseCalls, emitted, lastOp>>

\* The Application (lib/Application.js).
VARIABLES
    appListeners,        \* the listeners of each event, in registration order
    appServers,          \* length of this.servers
    appLast              \* the last call into the Application and its outcome

appVars == <<appListeners, appServers, appLast>>

\* The state of the Peer, without the record of the last operation.
peerVars == <<closed, requestHandlers, timer, promise, settleCalls, nextId,
              transportSent, transportCloseCalls, emitted>>

\* The Peer object as one value, so that the methods read as functions of it.
Peer ==
    [closed |-> closed, requestHandlers |-> requestHandlers, timer |-> timer,
     promise |-> promise, settleCalls |-> settleCalls, nextId |-> nextId,
     transportSent |-> transportSent,
     transportCloseCalls |-> transportCloseCalls, emitted |-> emitted]

Becomes(p) ==
    /\ closed' = p.closed
    /\ requestHandlers' = p.requestHandlers
    /\ timer' = p.timer
    /\ promise' = p.promise
    /\ settleCalls' = p.settleCalls
    /\ nextId' = p.nextId
    /\ transportSent' = p.transportSent
    /\ transportCloseCalls' = p.transportCloseCalls
    /\ emitted' = p.emitted
    /\ UNCHANGED appVars

\* ------------------------------------------------------------------ values
Pending == [state |-> "pending"]
Fulfilled(data) == [state |-> "fulfilled", value |-> data]
Rejected(error) == [state |-> "rejected", reason |-> error]

\* new Error(message): no code property.
Error(message) == [message |-> message]
\* new Error(errorReason) followed by error.code = errorCode.
ErrorWithCode(message, code) == [message |-> message, code |-> code]

RequestTimeoutError == Error("request timeout")
PeerClosedError == Error("peer closed")

CloseEvent == [event |-> "close"]
RequestEvent(request) == [event |-> "request", request |-> request]

\* A property of a JavaScript object read in a condition: absent is falsy.
Truthy(message, field) == field \in DOMAIN message /\ message[field] = TRUE

\* ------------------------------------------------------- Message factories
RequestFactory(id, method, data) ==
    [id |-> id, request |-> TRUE, method |-> method, data |-> data]

SuccessResponseFactory(request, data) ==
    [id |-> request.id, response |-> TRUE, ok |-> TRUE, data |-> data]

ErrorResponseFactory(request, errorReason, errorCode) ==
    [id |-> request.id, response |-> TRUE, ok |-> FALSE,
     errorReason |-> errorReason, errorCode |-> errorCode]

\* ------------------------------------------------- frames the remote sends
ResponseFrames ==
    {SuccessResponseFactory([id |-> i], d) : i \in Ids, d \in Data}
    \cup {ErrorResponseFactory([id |-> i], e[1], e[2]) :
            i \in Ids, e \in RemoteErrors}

InboundRequestFrames ==
    {RequestFactory(i, m, d) : i \in InboundIds, m \in Methods, d \in {"null"}}

OtherFrames == {[id |-> 1]}

Frames == ResponseFrames \cup InboundRequestFrames \cup OtherFrames

\* ---------------------------------------------------------- promise, timer
\* pResolve / pReject of the promise created in send(): the first call
\* settles the promise, later calls leave it as it is.
PromiseSettleOverwrite(p, outcome) == outcome

PromiseSettle(p, outcome) == IF p.state = "pending" THEN outcome ELSE p

ClearTimeout(t) == IF t = "armed" THEN "cleared" ELSE t

\* ----------------------------------------------------------- the handler
\* handler.resolve(data)
HandlerResolveKeepsTimer(p, id, data) ==
    IF id \notin p.requestHandlers
    THEN p
    ELSE [p EXCEPT !.requestHandlers = @ \ {id},
                   !.promise[id] = PromiseSettle(@, Fulfilled(data)),
                   !.settleCalls[id] = @ + 1]

HandlerResolve(p, id, data) ==
    IF id \notin p.requestHandlers
    THEN p
    ELSE [p EXCEPT !.requestHandlers = @ \ {id},
                   !.timer[id] = ClearTimeout(@),
                   !.promise[id] = PromiseSettle(@, Fulfilled(data)),
                   !.settleCalls[id] = @ + 1]

\* handler.reject(error)
HandlerReject(p, id, error) ==
    IF id \notin p.requestHandlers
    THEN p
    ELSE [p EXCEPT !.requestHandlers = @ \ {id},
                   !.timer[id] = ClearTimeout(@),
                   !.promise[id] = PromiseSettle(@, Rejected(error)),
                   !.settleCalls[id] = @ + 1]

\* The callback given to setTimeout.
HandlerTimerKeepsEntry(p, id) ==
    [p EXCEPT !.timer[id] = "fired",
              !.promise[id] = PromiseSettle(@, Rejected(RequestTimeoutError)),
              !.settleCalls[id] = @ + 1]

HandlerTimer(p, id) ==
    IF id \notin p.requestHandlers
    THEN [p EXCEPT !.timer[id] = "fired"]
    ELSE [p EXCEPT !.requestHandlers = @ \ {id},
                   !.timer[id] = "fired",
                   !.promise[id] = PromiseSettle(@, Rejected(RequestTimeoutError)),
                   !.settleCalls[id] = @ + 1]

\* handler.close()
HandlerCloseNoReject(p, id) ==
    [p EXCEPT !.timer[id] = ClearTimeout(@)]

HandlerClose(p, id) ==
    [p EXCEPT !.timer[id] = ClearTimeout(@),
              !.promise[id] = PromiseSettle(@, Rejected(PeerClosedError)),
              !.settleCalls[id] = @ + 1]

\* this._requestHandlers.forEach((handler) => handler.close()), in the
\* insertion order of the Map.
RECURSIVE ForEachHandlerClose(_, _)
ForEachHandlerClose(p, ids) ==
    IF ids = {}
    THEN p
    ELSE LET id == CHOOSE i \in ids : \A j \in ids : i <= j
         IN  ForEachHandlerClose(HandlerClose(p, id), ids \ {id})

\* ------------------------------------------------------- transport 'close'
\* The listener of the transport's 'close' event.
TransportCloseListenerToggle(p) ==
    [p EXCEPT !.closed = ~@,
              !.emitted = IF p.closed THEN @ ELSE Append(@, CloseEvent)]

TransportCloseListenerUnguarded(p) ==
    [p EXCEPT !.closed = TRUE, !.emitted = Append(@, CloseEvent)]

TransportCloseListener(p) ==
    IF p.closed
    THEN p
    ELSE [p EXCEPT !.closed = TRUE, !.emitted = Append(@, CloseEvent)]

\* this._transport.close(): the transport may raise its 'close' event from
\* inside the call (sync) or later.
TransportCloseCall(p, sync) ==
    LET called == [p EXCEPT !.transportCloseCalls = @ + 1]
    IN  IF sync THEN TransportCloseListener(called) ELSE called

\* ------------------------------------------------------------------ close()
PeerClose(p, sync) ==
    IF p.closed
    THEN p
    ELSE LET flagged == [p EXCEPT !.closed = TRUE]
             transportClosed == TransportCloseCall(flagged, sync)
             handlersClosed ==
                 ForEachHandlerClose(transportClosed,
                                     transportClosed.requestHandlers)
         IN  [handlersClosed EXCEPT !.emitted = Append(@, CloseEvent)]

\* ------------------------------------------------------------------- send()
PeerSendNoTimer(p, method, data) ==
    LET request == RequestFactory(p.nextId, method, data)
    IN  [p EXCEPT !.nextId = @ + 1,
                  !.promise = @ @@ (request.id :> Pending),
                  !.settleCalls = @ @@ (request.id :> 0),
                  !.timer = @ @@ (request.id :> "cleared"),
                  !.requestHandlers = @ \cup {request.id}]

PeerSend(p, method, data) ==
    LET request == RequestFactory(p.nextId, method, data)
    IN  [p EXCEPT !.nextId = @ + 1,
                  !.promise = @ @@ (request.id :> Pending),
                  !.settleCalls = @ @@ (request.id :> 0),
                  !.timer = @ @@ (request.id :> "armed"),
                  !.requestHandlers = @ \cup {request.id}]

\* -------------------------------------------------------- _handleResponse()
\* Settles the oldest entry of the table instead of the entry of response.id.
HandleResponseFifo(p, response) ==
    IF response.id \notin p.requestHandlers
    THEN p
    ELSE LET first == CHOOSE i \in p.requestHandlers :
                          \A j \in p.requestHandlers : i <= j
         IN  IF response.ok
             THEN HandlerResolve(p, first, response.data)
             ELSE HandlerReject(p, first,
                      ErrorWithCode(response.errorReason, response.errorCode))

HandleResponseSwapped(p, response) ==
    IF response.id \notin p.requestHandlers
    THEN p
    ELSE IF ~response.ok
         THEN HandlerResolve(p, response.id, "null")
         ELSE HandlerReject(p, response.id, Error("request failed"))

HandleResponseFatal(p, response) ==
    IF response.id \notin p.requestHandlers
    THEN [p EXCEPT !.closed = TRUE, !.emitted = Append(@, CloseEvent)]
    ELSE IF response.ok
         THEN HandlerResolve(p, response.id, response.data)
         ELSE HandlerReject(p, response.id,
                  ErrorWithCode(response.errorReason, response.errorCode))

HandleResponse(p, response) ==
    IF response.id \notin p.requestHandlers
    THEN p
    ELSE IF response.ok
         THEN HandlerResolve(p, response.id, response.data)
         ELSE HandlerReject(p, response.id,
                  ErrorWithCode(response.errorReason, response.errorCode))

\* --------------------------------------------------------- _handleRequest()
HandleRequestAutoAccept(p, request) ==
    [p EXCEPT !.emitted = Append(@, RequestEvent(request)),
              !.transportSent = Append(@, SuccessResponseFactory(request, "null"))]

HandleRequest(p, request) ==
    [p EXCEPT !.emitted = Append(@, RequestEvent(request))]

\* The accept() function handed out with a 'request' event.
RequestAcceptOnce(p, request, data) ==
    IF \E i \in 1..Len(p.transportSent) : p.transportSent[i].id = request.id
    THEN p
    ELSE [p EXCEPT !.transportSent =
                       Append(@, SuccessResponseFactory(request, data))]

RequestAccept(p, request, data) ==
    [p EXCEPT !.transportSent = Append(@, SuccessResponseFactory(request, data))]

\* The reject() function handed out with a 'request' event.
RequestRejectIfOpen(p, request, errorReason, errorCode) ==
    IF p.closed
    THEN p
    ELSE [p EXCEPT !.transportSent =
                       Append(@, ErrorResponseFactory(request, errorReason, errorCode))]

RequestReject(p, request, errorReason, errorCode) ==
    [p EXCEPT !.transportSent =
                  Append(@, ErrorResponseFactory(request, errorReason, errorCode))]

\* The listener of the transport's 'message' event.
TransportMessageListener(p, message) ==
    IF Truthy(message, "response")
    THEN HandleResponse(p, message)
    ELSE IF Truthy(message, "request")
         THEN HandleRequest(p, message)
         ELSE p

\* ------------------------------------------------------------- derived sets
Created == DOMAIN promise

\* Requests whose 'request' event has been emitted: their accept and reject
\* functions are in the observer's hands.
OfferedRequests ==
    {emitted[i].request : i \in {j \in 1..Len(emitted) : emitted[j].event = "request"}}

NumRequestEvents ==
    Cardinality({j \in 1..Len(emitted) : emitted[j].event = "request"})

NumCloseEvents ==
    Cardinality({j \in 1..Len(emitted) : emitted[j].event = "close"})

\* ----------------------------------------------------------------- actions
Init ==
    /\ closed = FALSE
    /\ requestHandlers = {}
    /\ timer = <<>>
    /\ promise = <<>>
    /\ settleCalls = <<>>
    /\ nextId = 1
    /\ transportSent = <<>>
    /\ transportCloseCalls = 0
    /\ emitted = <<>>
    /\ lastOp = [op |-> "init"]
    /\ appListeners = [event \in AppEvents |-> <<>>]
    /\ appServers = 0
    /\ appLast = [op |-> "init"]

\* A caller invokes peer.send(method, data).
Send(method, data) ==
    /\ nextId <= MaxRequests
    /\ Becomes(PeerSend(Peer, method, data))
    /\ lastOp' = [op |-> "send", id |-> nextId, wasClosed |-> closed]

\* A caller invokes peer.close().
Close(sync) ==
    /\ Becomes(PeerClose(Peer, sync))
    /\ lastOp' = [op |-> "close", wasClosed |-> closed, sync |-> sync]

\* The transport raises its 'close' event on its own.
TransportClose ==
    /\ Becomes(TransportCloseListener(Peer))
    /\ lastOp' = [op |-> "transportClose", wasClosed |-> closed]

\* The timer of a request fires.
Timeout(id) ==
    /\ id \in DOMAIN timer
    /\ timer[id] = "armed"
    /\ Becomes(HandlerTimer(Peer, id))
    /\ lastOp' = [op |-> "timer", id |-> id]

\* The transport raises its 'message' event with a decoded frame.
Message(message) ==
    /\ Truthy(message, "request") /\ ~Truthy(message, "response")
           => NumRequestEvents < MaxInbound
    /\ Becomes(TransportMessageListener(Peer, message))
    /\ lastOp' = [op |-> "message", id |-> message.id,
                  response |-> Truthy(message, "response"),
                  matched |-> message.id \in requestHandlers]

\* The observer invokes the accept function of an inbound request.
Accept(request, data) ==
    /\ request \in OfferedRequests
    /\ Len(transportSent) < MaxSent
    /\ Becomes(RequestAccept(Peer, request, data))
    /\ lastOp' = [op |-> "accept", request |-> request, wasClosed |-> closed]

\* The observer invokes the reject function of an inbound request.
Reject(request, errorReason, errorCode) ==
    /\ request \in OfferedRequests
    /\ Len(transportSent) < MaxSent
    /\ Becomes(RequestReject(Peer, request, errorReason, errorCode))
    /\ lastOp' = [op |-> "reject", request |-> request, wasClosed |-> closed]

Next ==
    \/ \E method \in Methods, data \in Data : Send(method, data)
    \/ \E sync \in BOOLEAN : Close(sync)
    \/ TransportClose
    \/ \E id \in Ids : Timeout(id)
    \/ \E message \in Frames : Message(message)
    \/ \E request \in InboundRequestFrames, data \in AcceptData : Accept(request, data)
    \/ \E request \in InboundRequestFrames, e \in RejectErrors :
          Reject(request, e[1], e[2])

Spec == Init /\ [][Next]_vars

\* The outbound request engine alone: the steps that read or write the table
\* of sent requests, their timers and their promises. Inbound requests and
\* their accept and reject functions touch none of these.
RequestEngineNext ==
    \/ \E method \in Methods, data \in Data : Send(method, data)
    \/ \E sync \in BOOLEAN : Close(sync)
    \/ TransportClose
    \/ \E id \in Ids : Timeout(id)
    \/ \E message \in ResponseFrames \cup OtherFrames : Message(message)

\* A timer armed by setTimeout and not cleared does fire.
FairSpec ==
    /\ Init
    /\ [][RequestEngineNext]_vars
    /\ \A id \in Ids : WF_vars(Timeout(id))

\* ------------------------------------------------------------ Application
\* Outcome of a call: a normal return or an exception.
Returned == [kind |-> "return"]
ReturnedValue(value) == [kind |-> "return", value |-> value]
Thrown(error) == [kind |-> "throw", error |-> error]

Delivery(event, listener, payload) ==
    [event |-> event, listener |-> listener, payload |-> payload]

\* Index of the first listener of the sequence that throws, 0 if none does.
FirstThrowing(ls) ==
    IF \E i \in 1..Len(ls) : ls[i] = "throws"
    THEN CHOOSE i \in 1..Len(ls) :
             /\ ls[i] = "throws"
             /\ \A j \in 1..(i - 1) : ls[j] # "throws"
    ELSE 0

\* EventEmitter.emit(event, payload): the listeners run in registration
\* order and the exception of a listener ends the call; 'error' without a
\* listener throws the payload.
EmitterEmit(listeners, event, payload) ==
    LET ls == listeners[event]
        k == FirstThrowing(ls)
        last == IF k = 0 THEN Len(ls) ELSE k
    IN  [delivered |-> [i \in 1..last |-> Delivery(event, i, payload)],
         result |-> IF Len(ls) = 0
                    THEN IF event = "error"
                         THEN Thrown(payload)
                         ELSE ReturnedValue(FALSE)
                    ELSE IF k = 0
                         THEN ReturnedValue(TRUE)
                         ELSE Thrown(ListenerError)]

\* Application.prototype.error
ApplicationErrorSwallows(listeners, error) ==
    IF Len(listeners["error"]) = 0
    THEN [called |-> TRUE, payload |-> error, delivered |-> <<>>,
          result |-> Returned]
    ELSE LET e == EmitterEmit(listeners, "error", error)
         IN  [called |-> TRUE, payload |-> error, delivered |-> e.delivered,
              result |-> IF e.result.kind = "throw" THEN e.result ELSE Returned]

ApplicationError(listeners, error) ==
    IF Len(listeners["error"]) = 0
    THEN [called |-> TRUE, payload |-> error, delivered |-> <<>>,
          result |-> Thrown(error)]
    ELSE LET e == EmitterEmit(listeners, "error", error)
         IN  [called |-> TRUE, payload |-> error, delivered |-> e.delivered,
              result |-> IF e.result.kind = "throw" THEN e.result ELSE Returned]

NoErrorCall == [called |-> FALSE]

\* Application.prototype.fire
ApplicationFireNoCatch(listeners, event, payload) ==
    LET e == EmitterEmit(listeners, event, payload)
    IN  [emit |-> e, error |-> NoErrorCall,
         result |-> IF e.result.kind = "throw"
                    THEN e.result
                    ELSE ReturnedValue(TRUE)]

ApplicationFire(listeners, event, payload) ==
    LET e == EmitterEmit(listeners, event, payload)
    IN  IF e.result.kind # "throw"
        THEN [emit |-> e, error |-> NoErrorCall, result |-> ReturnedValue(TRUE)]
        ELSE LET r == ApplicationError(listeners, e.result.error)
             IN  [emit |-> e, error |-> r,
                  result |-> IF r.result.kind = "throw"
                             THEN r.result
                             ELSE ReturnedValue(FALSE)]

\* The user registers a listener: application.on(event, listener).
AppOn(event, behaviour) ==
    /\ Len(appListeners[event]) < MaxListeners
    /\ appListeners' = [appListeners EXCEPT ![event] = Append(@, behaviour)]
    /\ appLast' = [op |-> "on", event |-> event]
    /\ UNCHANGED <<appServers, vars>>

\* application.handleWebSocket(httpServer)
AppHandleWebSocket ==
    /\ appServers < MaxServers
    /\ appServers' = appServers + 1
    /\ appLast' = [op |-> "handleWebSocket"]
    /\ UNCHANGED <<appListeners, vars>>

\* The PeerManager emits 'error': the listener set in the constructor.
AppPeerManagerError(error) ==
    /\ appLast' = [op |-> "error", path |-> "peerManager",
                   error |-> ApplicationError(appListeners, error)]
    /\ UNCHANGED <<appListeners, appServers, vars>>

\* A WebSocketServer emits 'error': the listener set in handleWebSocket().
AppWebSocketServerError(error) ==
    /\ appServers > 0
    /\ appLast' = [op |-> "error", path |-> "wsServer",
                   error |-> ApplicationError(appListeners, error)]
    /\ UNCHANGED <<appListeners, appServers, vars>>

\* application.fire(event, payload)
AppFire(event, payload) ==
    /\ event = "error" => payload \in AppErrors
    /\ LET f == ApplicationFire(appListeners, event, payload)
       IN  appLast' = [op |-> "fire", path |-> "fire", event |-> event,
                       payload |-> payload, emit |-> f.emit,
                       error |-> f.error, result |-> f.result]
    /\ UNCHANGED <<appListeners, appServers, vars>>

AppNext ==
    \/ \E event \in AppEvents, behaviour \in ListenerBehaviours :
           AppOn(event, behaviour)
    \/ AppHandleWebSocket
    \/ \E error \in AppErrors : AppPeerManagerError(error)
    \/ \E error \in AppErrors : AppWebSocketServerError(error)
    \/ \E event \in AppEvents, payload \in AppPayloads : AppFire(event, payload)

AppSpec == Init /\ [][AppNext]_<<vars, appVars>>

\* ------------------------------------------------------------------ claims
AnySend == \E method \in Methods, data \in Data : Send(method, data)
AnyClose == \E sync \in BOOLEAN : Close(sync)

C2_ResponseSettles ==
    [][\A m \in ResponseFrames :
           (/\ lastOp'.op = "message" /\ lastOp'.id = m.id
            /\ m.id \in requestHandlers
            /\ promise[m.id] = Pending
            /\ Message(m))
           => promise'[m.id] =
                  IF m.ok THEN Fulfilled(m.data)
                  ELSE Rejected(ErrorWithCode(m.errorReason, m.errorCode))]_vars

C2_Witness ==
    /\ lastOp.op = "message" /\ lastOp.response /\ lastOp.matched
    /\ promise[lastOp.id] = Rejected(ErrorWithCode("not allowed", 403))
    /\ \E id \in DOMAIN promise : promise[id] = Fulfilled("pong")

\* C3: when the timer of a pending request fires, its promise is rejected
\* with 'request timeout' and its entry leaves the table; a response with
\* the id of a timed out request finds no entry and changes nothing.
C3_TimeoutThenUnmatched ==
    [][/\ \A id \in DOMAIN promise :
             (/\ lastOp'.op = "timer"
              /\ promise[id] = Pending
              /\ Timeout(id))
             => /\ promise'[id] = Rejected(RequestTimeoutError)
                /\ id \notin requestHandlers'
       /\ (/\ lastOp'.op = "message" /\ lastOp'.response
           /\ lastOp'.id \in DOMAIN promise
           /\ promise[lastOp'.id] = Rejected(RequestTimeoutError))
          => /\ lastOp'.id \notin requestHandlers
             /\ UNCHANGED peerVars]_vars

C3_Witness ==
    /\ lastOp.op = "message" /\ lastOp.response /\ ~lastOp.matched
    /\ lastOp.id \in DOMAIN promise
    /\ promise[lastOp.id] = Rejected(RequestTimeoutError)
    /\ timer[lastOp.id] = "fired"

\* C4: close() on an open Peer sets the closed flag, calls the transport's
\* close once and rejects every pending promise with 'peer closed', all in
\* the one step.
C4_CloseRejectsPending ==
    [][(AnyClose /\ ~closed)
       => /\ closed'
          /\ transportCloseCalls' = transportCloseCalls + 1
          /\ \A id \in DOMAIN promise :
                 promise[id] = Pending
                 => promise'[id] = Rejected(PeerClosedError)]_vars

C4_Witness ==
    /\ lastOp.op = "close" /\ ~lastOp.wasClosed
    /\ closed /\ transportCloseCalls = 1
    /\ Cardinality({id \in DOMAIN promise :
                      promise[id] = Rejected(PeerClosedError)}) >= 2

\* C5: send() on a closed Peer returns a promise already rejected with
\* 'peer closed', adds no entry to the table, arms no timer and writes
\* nothing to the transport.
C5_SendWhenClosedFails ==
    [][(AnySend /\ closed)
       => /\ promise'[nextId] = Rejected(PeerClosedError)
          /\ requestHandlers' = requestHandlers
          /\ (nextId \in DOMAIN timer' => timer'[nextId] # "armed")
          /\ transportSent' = transportSent]_vars

\* C6: the transport's 'close' event on an open Peer sets the closed flag,
\* rejects every pending promise with 'peer closed', emits one 'close' event
\* and does not call the transport's close.
C6_TransportCloseLikeClose ==
    [][(TransportClose /\ ~closed)
       => /\ closed'
          /\ \A id \in DOMAIN promise :
                 promise[id] = Pending
                 => promise'[id] = Rejected(PeerClosedError)
          /\ emitted' = Append(emitted, CloseEvent)
          /\ transportCloseCalls' = transportCloseCalls]_vars

\* C7: the Peer never emits more than one 'close' event; after any close()
\* or transport 'close' event exactly one has been emitted, and such a step
\* taken when the Peer was already closed changes nothing.
C7_OneCloseEvent ==
    [][/\ NumCloseEvents' <= 1
       /\ (AnyClose \/ TransportClose)
          => /\ NumCloseEvents' = 1
             /\ closed => UNCHANGED peerVars]_vars

\* close() ran with the transport raising its 'close' event from inside
\* transport.close().
C7_Witness ==
    /\ lastOp.op = "close" /\ lastOp.sync /\ ~lastOp.wasClosed
    /\ NumCloseEvents = 1

\* C8: whenever the Peer is closed, the table of pending requests is empty.
C8_ClosedHasNoPending == closed => requestHandlers = {}

\* C9: send() on an open Peer hands the transport one request frame whose id
\* is the id under which the handler is registered.
C9_SendWritesFrame ==
    [][(AnySend /\ ~closed)
       => /\ nextId \in requestHandlers'
          /\ \E method \in Methods, data \in Data :
                 transportSent' =
                     Append(transportSent, RequestFactory(nextId, method, data))]_vars

\* C10: a response whose id has no entry in the table leaves the table, the
\* timers, the closed flag, the promises, the emitted events and the frames
\* written to the transport as they were.
C10_UnmatchedResponseNoOp ==
    [][(/\ lastOp'.op = "message" /\ lastOp'.response
        /\ lastOp'.id \notin requestHandlers)
       => UNCHANGED peerVars]_vars

C10_Witness ==
    /\ lastOp.op = "message" /\ lastOp.response /\ ~lastOp.matched
    /\ requestHandlers # {}
    /\ ~closed

\* C11: the closed flag starts false and no step takes it from true back to
\* false.
C11_ClosedMonotonic ==
    [][/\ lastOp.op = "init" => closed = FALSE
       /\ closed => closed']_vars

\* A send, a timer or a message was handled by a Peer that was closed before.
C11_Witness ==
    /\ closed
    /\ lastOp.op = "message" /\ lastOp.response /\ lastOp.matched
    /\ NumCloseEvents = 1

\* C12: an inbound request frame emits one 'request' event carrying the
\* frame and writes nothing; accept(data) then writes a response with the
\* request's id, ok = true and data; reject(reason, code) writes one with the
\* request's id, ok = false, the reason and the code; no other step writes
\* to the transport.
C12_InboundRequest ==
    [][/\ \A m \in InboundRequestFrames :
             (lastOp'.op = "message" /\ ~lastOp'.response /\ Message(m))
             => /\ emitted' = Append(emitted, [event |-> "request", request |-> m])
                /\ transportSent' = transportSent
       /\ \A r \in InboundRequestFrames, d \in AcceptData :
             (lastOp'.op = "accept" /\ Accept(r, d))
             => transportSent' =
                    Append(transportSent,
                           [id |-> r.id, response |-> TRUE, ok |-> TRUE, data |-> d])
       /\ \A r \in InboundRequestFrames, e \in RejectErrors :
             (lastOp'.op = "reject" /\ Reject(r, e[1], e[2]))
             => transportSent' =
                    Append(transportSent,
                           [id |-> r.id, response |-> TRUE, ok |-> FALSE,
                            errorReason |-> e[1], errorCode |-> e[2]])
       /\ transportSent' # transportSent
             => lastOp'.op \in {"accept", "reject"}]_vars

C12_Witness ==
    /\ lastOp.op = "reject"
    /\ NumRequestEvents = 1
    /\ transportSent =
           <<[id |-> 7, response |-> TRUE, ok |-> FALSE,
              errorReason |-> "busy", errorCode |-> 500]>>

\* C15: the settle functions of the promise of a request are called at most
\* once over any sequence of events.
C15_SettleCalledAtMostOnce == \A id \in DOMAIN settleCalls : settleCalls[id] <= 1

\* C17: a request whose promise was settled by a response or by close() has
\* its timer cleared, so that its timer cannot fire.
C17_SettledTimerCleared ==
    \A id \in DOMAIN promise :
        (promise[id] # Pending /\ promise[id] # Rejected(RequestTimeoutError))
        => timer[id] = "cleared"

C17_Witness ==
    /\ \E id \in DOMAIN promise :
           promise[id].state = "fulfilled" /\ timer[id] = "cleared"
    /\ \E id \in DOMAIN promise :
           promise[id] = Rejected(PeerClosedError) /\ timer[id] = "cleared"
    /\ lastOp.op = "close"

\* C18: a response or a timeout of one request leaves the table entry, the
\* timer and the promise of every other request as they were, and a matching
\* response settles the request of its own id with its own data whatever the
\* order in which the requests were sent.
C18_RequestsIndependent ==
    [][/\ lastOp'.op \in {"message", "timer"}
          => \A id \in DOMAIN promise \ {lastOp'.id} :
                 /\ promise'[id] = promise[id]
                 /\ timer'[id] = timer[id]
                 /\ (id \in requestHandlers') = (id \in requestHandlers)
       /\ \A m \in ResponseFrames :
             (/\ lastOp'.op = "message" /\ lastOp'.id = m.id
              /\ m.id \in requestHandlers
              /\ promise[m.id] = Pending
              /\ \E other \in requestHandlers : other # m.id
              /\ Message(m))
             => /\ m.id \notin requestHandlers'
                /\ promise'[m.id].state = IF m.ok THEN "fulfilled" ELSE "rejected"
                /\ m.ok => promise'[m.id].value = m.data]_vars

\* The response of the second request arrived while the first was still
\* outstanding.
C18_Witness ==
    /\ lastOp.op = "message" /\ lastOp.response /\ lastOp.matched
    /\ lastOp.id = 2
    /\ promise[2] = Fulfilled("pong")
    /\ 1 \in requestHandlers /\ promise[1] = Pending /\ timer[1] = "armed"

\* C19: every call of accept or reject writes one more response frame for
\* its request, also when a response for that request was written before.
C19_AcceptRejectUnguarded ==
    [][(/\ lastOp'.op \in {"accept", "reject"}
        /\ \E i \in 1..Len(transportSent) :
               transportSent[i].id = lastOp'.request.id)
       => /\ Len(transportSent') = Len(transportSent) + 1
          /\ transportSent'[Len(transportSent')].id = lastOp'.request.id]_vars

C19_Witness ==
    /\ Len(transportSent) = 2
    /\ transportSent[1].id = 7 /\ transportSent[1].ok
    /\ transportSent[2].id = 7 /\ transportSent[2].ok
    /\ NumRequestEvents = 1

\* C20: accept and reject called on a closed Peer still hand a response
\* frame to the transport's send.
C20_AcceptRejectWhenClosed ==
    [][(lastOp'.op \in {"accept", "reject"} /\ closed)
       => /\ Len(transportSent') = Len(transportSent) + 1
          /\ transportSent'[Len(transportSent')].response
          /\ transportSent'[Len(transportSent')].id = lastOp'.request.id]_vars

C20_Witness ==
    /\ lastOp.op = "reject" /\ lastOp.wasClosed
    /\ transportCloseCalls = 1
    /\ Len(transportSent) = 1 /\ ~transportSent[1].ok

\* C16: with every armed timer firing unless it is cleared, the promise of
\* every request created by send() eventually has an outcome.
C16_EventuallySettles ==
    \A id \in Ids :
        (id \in DOMAIN promise)
            ~> (id \in DOMAIN promise /\ promise[id] # Pending)

\* A request left pending by a transport closure was settled by its timer.
C16_Witness ==
    /\ closed /\ transportCloseCalls = 0
    /\ lastOp.op = "timer"
    /\ promise[lastOp.id] = Rejected(RequestTimeoutError)

\* The call of Application.error made in the last operation, if any.
ErrorCalled ==
    /\ appLast.op \in {"error", "fire"}
    /\ appLast.error.called

ErrorListeners == appListeners["error"]

\* C13 as stated: error() throws the error when there is no 'error'
\* listener and otherwise delivers it to every registered 'error' listener.
C13_ErrorDeliversToAll ==
    ErrorCalled
    => IF Len(ErrorListeners) = 0
       THEN /\ appLast.error.result = Thrown(appLast.error.payload)
            /\ appLast.error.delivered = <<>>
       ELSE appLast.error.delivered =
                [i \in 1..Len(ErrorListeners) |->
                    Delivery("error", i, appLast.error.payload)]

\* C13, amended: error() throws the error when there is no 'error' listener;
\* otherwise it calls the 'error' listeners in registration order with the
\* error, up to and including the first one that throws, whose exception
\* goes to the caller; it calls every one and returns when none throws.
\* The same holds on the PeerManager, WebSocketServer and fire() paths.
C13_ErrorDeliversInOrder ==
    ErrorCalled
    => LET n == Len(ErrorListeners)
           d == appLast.error.delivered
       IN  IF n = 0
           THEN /\ appLast.error.result = Thrown(appLast.error.payload)
                /\ d = <<>>
           ELSE /\ \A i \in 1..n :
                       IF \E j \in 1..(i - 1) : ErrorListeners[j] = "throws"
                       THEN i > Len(d)
                       ELSE /\ i <= Len(d)
                            /\ d[i] = Delivery("error", i, appLast.error.payload)
                /\ appLast.error.result =
                       IF \E i \in 1..n : ErrorListeners[i] = "throws"
                       THEN Thrown(ListenerError)
                       ELSE Returned

\* error() was reached from fire() with two 'error' listeners of which the
\* first throws: the second was not called.
C13_Witness ==
    /\ ErrorCalled /\ appLast.path = "fire"
    /\ ErrorListeners = <<"throws", "returns">>
    /\ Len(appLast.error.delivered) = 1
    /\ appLast.error.result = Thrown(ListenerError)

\* Whether emitting the event raises an error, from the listeners alone.
EmitRaises(event) ==
    \/ \E i \in 1..Len(appListeners[event]) : appListeners[event][i] = "throws"
    \/ event = "error" /\ Len(ErrorListeners) = 0

\* Whether error() returns: there is an 'error' listener and none throws.
ErrorHandled ==
    /\ Len(ErrorListeners) > 0
    /\ \A i \in 1..Len(ErrorListeners) : ErrorListeners[i] = "returns"

====
